---- MODULE Spec2Model ----
(***************************************************************************)
(* wal-g prometheus exporter: the PostgreSQL exporter (src/exporter.py)    *)
(* and the MySQL exporter (src/mysql/mysql_exporter.py).                   *)
(*                                                                         *)
(* One exporter process is modelled at a time; `backend` says which.  The  *)
(* main thread walks the startup retry loop and then the poll loop; the    *)
(* metrics-serving thread runs gauge callbacks at any moment.  The backup  *)
(* tool, the database and the archive directory are the environment: each  *)
(* call draws its outcome from a small set.                                *)
(***************************************************************************)
EXTENDS Integers, Sequences, FiniteSets, TLC

VARIABLES
    backend,                \* "pg" (src/exporter.py) or "mysql" (src/mysql/mysql_exporter.py)
    pc,                     \* position of the main thread
    terminate,              \* mysql: module global set by the SIGTERM handler
    bbs,                    \* self.bbs
    basebackup,             \* self.basebackup: the label tuples that have a series
    basebackup_exception,   \* self.basebackup_exception
    xlog_exception,         \* self.xlog_exception (truth value)
    listing_result,         \* outcome of the most recent backup-list attempt
    wal_integrity_status,   \* self.wal_integrity_status: value per label, NoSeries when absent
    wal_archive_count,      \* self.wal_archive_count
    wal_archive_missing_count, \* self.wal_archive_missing_count
    last_upload_wal,        \* self.last_upload.labels('wal')
    latest_uploaded_binlog, \* mysql: self.latest_uploaded_binlog
    latest_uploaded_binlog_gauge, \* mysql: labels of walg_binlog_latest_uploaded
    latest_active_binlog,   \* mysql: self.latest_active_binlog
    latest_active_binlog_gauge,   \* mysql: labels of walg_binlog_latest_active
    tmp_files,              \* mysql: the entries under tmp_binlog_dir
    cleanup_enabled,        \* mysql: module global, from tmp_binlog_cleanup_enabled
    cleanup_max_size,       \* mysql: module global, from tmp_binlog_cleanup_max_size
    cb_pc,                  \* serving thread: position in the last_backup_duration callback
    cb_list,                \* serving thread: the list object it loaded from self.bbs
    cb_a,                   \* serving thread: the finish_time it has read
    cb_result,              \* serving thread: what the callback returned
    cb_raised,              \* serving thread: the callback raised IndexError
    cb_valid,               \* the callback's value on each inventory it met in self.bbs
    xlog_ready,             \* what walg_missing_remote_wal_segment_at_end last served
    ub_stack,               \* update_basebackup executions that hold an output not yet reconciled
    now,                    \* datetime.datetime.now().timestamp(), in seconds
    last_archive_check,     \* self.last_archive_check
    archive_status,         \* self.archive_status
    lookup,                 \* the most recent status lookup: who made it and what it did
    xlogs_since,            \* what walg_xlogs_since_basebackup last served
    last_upload_xlog,       \* what walg_last_upload{type="xlog"} last served
    wd_a,                   \* wal_diff: first argument
    wd_b,                   \* wal_diff: second argument
    wd_result,              \* wal_diff: <<>> before the call, <<returned value>> after
    th_pc,                  \* per serving thread: its position in last_archive_status
    th_ret,                 \* per serving thread: what last_archive_status returned to it
    th_at,                  \* per serving thread: the clock when its test found the cache stale
    fetched                 \* the rows that successful status queries have returned

exporterVars == <<bbs, basebackup, basebackup_exception>>
walVars == <<wal_integrity_status, wal_archive_count, wal_archive_missing_count,
             last_upload_wal>>
binlogVars == <<latest_uploaded_binlog, latest_uploaded_binlog_gauge,
                latest_active_binlog, latest_active_binlog_gauge,
                tmp_files, cleanup_enabled, cleanup_max_size>>
cbVars == <<cb_pc, cb_list, cb_a, cb_result, cb_raised, cb_valid>>
reloadVars == <<ub_stack>>
cacheVars == <<now, last_archive_check, archive_status, lookup, xlogs_since,
              last_upload_xlog>>
diffVars == <<wd_a, wd_b, wd_result>>
threadVars == <<th_pc, th_ret, th_at, fetched>>
\* What the steps of the poll loop, taken whole, leave alone.
sideVars == <<xlog_ready, reloadVars, cacheVars, diffVars, threadVars>>
vars == <<backend, pc, terminate, bbs, basebackup, basebackup_exception,
          xlog_exception, listing_result, wal_integrity_status, wal_archive_count,
          wal_archive_missing_count, last_upload_wal, latest_uploaded_binlog,
          latest_uploaded_binlog_gauge, latest_active_binlog,
          latest_active_binlog_gauge, tmp_files, cleanup_enabled, cleanup_max_size,
          cb_pc, cb_list, cb_a, cb_result, cb_raised,
          cb_valid, xlog_ready, ub_stack, now, last_archive_check, archive_status,
          lookup, xlogs_since, last_upload_xlog, wd_a, wd_b, wd_result,
          th_pc, th_ret, th_at, fetched>>

(***************************************************************************)
(* Bounds of the environment.                                              *)
(***************************************************************************)
MaxNames == 3       \* backups the tool knows: names 1..MaxNames
MaxTime == 2        \* start times 1..MaxTime
MaxLen == 2         \* records in one backup-list output
MaxBare == 1        \* names 1..MaxBare may be listed without timestamps
MaxThreads == 2     \* serving threads that run gauge callbacks at one time

NoTime == 0         \* None: a timestamp that is absent or did not parse
Epoch == 0          \* datetime.fromtimestamp(0)
NoSeries == -1      \* a labelled gauge child that was never created
NoCheck == -1       \* None: self.last_archive_check before the first query

Names == 1..MaxNames
Threads == 1..MaxThreads

\* None where a binlog file name is expected.
NoBinlog == [stem |-> "", ext |-> <<>>]

(***************************************************************************)
(* The backup tool's records.  A backup has a fixed start time and a fixed *)
(* duration; a listing shows it complete, or (the first MaxBare names)     *)
(* without any timestamp.                                                  *)
(***************************************************************************)
StartOf(n) == 1 + ((n + 1) % MaxTime)
FinishOf(n) == StartOf(n) + n

\* A WAL file name: 24 hexadecimal digits, 8 for the timeline, 8 for the
\* log and 8 for the segment ("%08X%08X%08X"); a digit is its value 0..15.
Hex8(v) == [i \in 1..8 |-> (v \div (16 ^ (8 - i))) % 16]
WalFileName(timeline, log, seg) == Hex8(timeline) \o Hex8(log) \o Hex8(seg)

RawRecord(n, st, ft) ==
    [backup_name |-> n,
     wal_file_name |-> WalFileName(1, 0, n),
     start_lsn |-> n,
     finish_lsn |-> n + 1,
     is_permanent |-> FALSE,
     uncompressed_size |-> 2 * n,
     compressed_size |-> n,
     start_time |-> st,
     finish_time |-> ft,
     modify_time |-> ft]

CompleteRecords == {RawRecord(n, StartOf(n), FinishOf(n)) : n \in Names}
BareRecords == {RawRecord(n, NoTime, NoTime) : n \in 1..MaxBare}

\* The records of one output: distinct names, any order, at most MaxLen.
RECURSIVE SeqsUpTo(_, _)
SeqsUpTo(S, k) ==
    IF k = 0 THEN {<<>>}
    ELSE LET shorter == SeqsUpTo(S, k - 1)
         IN shorter \cup {Append(s, r) : s \in {t \in shorter : Len(t) = k - 1}, r \in S}

NamesOf(s) == {s[i].backup_name : i \in 1..Len(s)}
Snapshots(R) == {s \in SeqsUpTo(R, MaxLen) : Cardinality(NamesOf(s)) = Len(s)}

(***************************************************************************)
(* list.sort(key=...): stable, ascending by key.                           *)
(***************************************************************************)
\* `sorted` and `r` are <<key, record>> pairs.
RECURSIVE InsertByKey(_, _)
InsertByKey(sorted, r) ==
    IF sorted = <<>> THEN <<r>>
    ELSE IF sorted[Len(sorted)][1] <= r[1] THEN Append(sorted, r)
    ELSE Append(InsertByKey(SubSeq(sorted, 1, Len(sorted) - 1), r),
                sorted[Len(sorted)])

RECURSIVE SortPairs(_)
SortPairs(s) ==
    IF s = <<>> THEN <<>>
    ELSE InsertByKey(SortPairs(SubSeq(s, 1, Len(s) - 1)), s[Len(s)])

\* s.sort(key=...), with keys[i] the key of s[i].
SortByKey(s, keys) ==
    LET sorted == SortPairs([i \in 1..Len(s) |-> <<keys[i], s[i]>>])
    IN [i \in 1..Len(s) |-> sorted[i][2]]

(***************************************************************************)
(* The metrics registry: a labelled gauge is the set of label tuples that  *)
(* have a series.  labels(...) creates the series of a tuple or finds it;  *)
(* remove(...) retracts the series of exactly that tuple and does nothing  *)
(* when there is none.  Label values are rendered with str().              *)
(***************************************************************************)
Labels(gauge, labelvalues) == gauge \cup {labelvalues}
Remove(gauge, labelvalues) == gauge \ {labelvalues}

StrBool(b) == IF b THEN "True" ELSE "False"

\* str(datetime): one text per instant.
StrTime(t) == ToString(t)

(***************************************************************************)
(* src/exporter.py                                                         *)
(***************************************************************************)
RECURSIVE Log1024(_)
Log1024(n) == IF n < 1024 THEN 0 ELSE 1 + Log1024(n \div 1024)

RECURSIVE Pow1024(_)
Pow1024(i) == IF i = 0 THEN 1 ELSE 1024 * Pow1024(i - 1)

size_name == <<"B", "KB", "MB", "GB", "TB", "PB", "EB", "ZB", "YB">>

\* round(size_bytes / p, 2) in hundredths, halves to the even neighbour.
RoundHundredths(size_bytes, p) ==
    LET q == (size_bytes * 100) \div p
        r == (size_bytes * 100) % p
    IN IF 2 * r > p \/ (2 * r = p /\ q % 2 = 1) THEN q + 1 ELSE q

\* "%s" of a float with at most two decimals.
StrHundredths(h) ==
    LET whole == h \div 100
        frac == h % 100
    IN ToString(whole) \o "." \o
       (IF frac % 10 = 0 THEN ToString(frac \div 10)
        ELSE ToString(frac \div 10) \o ToString(frac % 10))

convert_size(size_bytes) ==
    IF size_bytes = 0 THEN "0B"
    ELSE LET i == Log1024(size_bytes)
         IN StrHundredths(RoundHundredths(size_bytes, Pow1024(i))) \o " " \o size_name[i + 1]

\* parse_date: strptime raises on a value that is no timestamp.
parse_date_raises(date) == date = NoTime

\* format_date raises when one of the record's dates does.
format_date_raises(bb) ==
    parse_date_raises(bb.start_time) \/ parse_date_raises(bb.finish_time)

\* The label values update_basebackup registers a backup with.
pg_labels(bb) ==
    <<bb.wal_file_name, ToString(bb.start_lsn), ToString(bb.finish_lsn),
      StrBool(bb.is_permanent), convert_size(bb.uncompressed_size),
      convert_size(bb.compressed_size), StrTime(bb.start_time),
      StrTime(bb.finish_time)>>

\* The label values update_basebackup retracts a deleted backup with.
pg_remove_labels(bb) == <<bb.wal_file_name, ToString(bb.start_lsn)>>

\* Variant of pg_sort in which the sort is left out.
pg_sort_left_out(new_bbs) == new_bbs

\* new_bbs.sort(key=lambda bb: bb['start_time'])
pg_sort(new_bbs) == SortByKey(new_bbs, [i \in 1..Len(new_bbs) |-> new_bbs[i].start_time])

RECURSIVE RemoveAll(_, _, _)
RemoveAll(gauge, old, i) ==
    IF i > Len(old) THEN gauge
    ELSE RemoveAll(Remove(gauge, old[i]), old, i + 1)

RECURSIVE LabelsAll(_, _, _)
LabelsAll(gauge, new, i) ==
    IF i > Len(new) THEN gauge
    ELSE LabelsAll(Labels(gauge, new[i]), new, i + 1)

\* The elements of s that satisfy the test, in order.
SelectNotIn(s, names) == SelectSeq(s, LAMBDA bb : bb.backup_name \notin names)

\* What a backup-list run gives: its exit and its output.
\*   "ok": exit 0, stdout holds the records (none: empty stdout)
\*   "exit": non-zero exit (CalledProcessError)
\*   "nobinary": the binary is missing (FileNotFoundError)
\*   "badjson": exit 0, stdout is not JSON
ListingKinds == {"ok", "exit", "nobinary", "badjson"}
ListingOutcome(kind, stdout) == [kind |-> kind, stdout |-> stdout]

\* update_basebackup lets an exception escape: only CalledProcessError is caught.
update_basebackup_raises(out) ==
    \/ out.kind \in {"nobinary", "badjson"}
    \/ out.kind = "ok" /\ \E i \in 1..Len(out.stdout) : format_date_raises(out.stdout[i])

update_basebackup(out) ==
    IF update_basebackup_raises(out)
    THEN /\ UNCHANGED <<bbs, basebackup, basebackup_exception>>
         /\ listing_result' = "failed"
    ELSE IF out.kind = "exit"
    THEN /\ basebackup_exception' = TRUE
         /\ UNCHANGED <<bbs, basebackup>>
         /\ listing_result' = "failed"
    ELSE LET new_bbs == pg_sort(out.stdout)
             new_bbs_name == NamesOf(new_bbs)
             old_bbs_name == NamesOf(bbs)
             deleted == SelectNotIn(bbs, new_bbs_name)
             created == SelectNotIn(new_bbs, old_bbs_name)
             removed == RemoveAll(basebackup,
                                  [i \in 1..Len(deleted) |-> pg_remove_labels(deleted[i])], 1)
             added == LabelsAll(removed,
                                [i \in 1..Len(created) |-> pg_labels(created[i])], 1)
         IN /\ basebackup' = added
            /\ bbs' = IF Len(new_bbs) = 0 THEN bbs ELSE new_bbs
            /\ basebackup_exception' = FALSE
            /\ listing_result' = "ok"

(***************************************************************************)
(* update_wal_status.  A wal-verify run gives its exit and its output: the *)
(* report is <<>> for an empty stdout, else <<[status, details]>>.  The    *)
(* database answers the pg_stat_archiver query with a row or an error.     *)
(***************************************************************************)
WalOutcome(kind, report) == [kind |-> kind, report |-> report]
WalReport(status, details) == [status |-> status, details |-> details]
WalEntry(status, count, timeline) ==
    [status |-> status, segments_count |-> count, timeline_id |-> timeline]

DbOutcome(kind, time, wal) ==
    [kind |-> kind, last_archived_time |-> time, last_archived_wal |-> wal]

\* self.archive_status = None, and the record of a lookup before any is made.
NoStatus == DbOutcome("none", NoTime, <<>>)
NoLookup ==
    [by |-> "none", queried |-> FALSE, raised |-> FALSE, outside |-> FALSE,
     value |-> NoStatus]

\* What a callback gave the collector: a value, or an exception.
Returned(v) == [raised |-> FALSE, value |-> v]
Raised == [raised |-> TRUE, value |-> 0]

\* The lookup went to the database (the window had passed: `outside`), or
\* was answered from the cache.
Queried(by, db, outside) ==
    [by |-> by, queried |-> TRUE, raised |-> db.kind = "fail", outside |-> outside,
     value |-> IF db.kind = "fail" THEN NoStatus ELSE db]
Cached(by, value) ==
    [by |-> by, queried |-> FALSE, raised |-> FALSE, outside |-> FALSE, value |-> value]

\* last_archive_status: self.last_archive_check is None or
\* now - self.last_archive_check > 1
TTL == 1
needs_query == last_archive_check = NoCheck \/ now - last_archive_check > TTL

\* _last_archive_status: the query, which the caller `by` makes itself.
_last_archive_status(by, db) == Queried(by, db, needs_query)

wal_archive_list(out) ==
    IF out.report = <<>> THEN <<>>
    ELSE LET details == out.report[1].details
         IN SortByKey(details, [i \in 1..Len(details) |-> details[i].timeline_id])

\* Variant of CountSegments that counts the entries, not their segments.
CountEntries(list, i, found) ==
    Cardinality({j \in i..Len(list) : (list[j].status = "FOUND") = found})

RECURSIVE CountSegments(_, _, _)
CountSegments(list, i, found) ==
    IF i > Len(list) THEN 0
    ELSE (IF (list[i].status = "FOUND") = found THEN list[i].segments_count ELSE 0)
         + CountSegments(list, i + 1, found)

\* update_wal_status asks the database itself, past the cache, when the
\* report has details.
update_wal_status_queries(out) == out.kind = "ok" /\ Len(wal_archive_list(out)) > 0

\* The exception leaves update_wal_status before any gauge is set: the
\* CalledProcessError is caught and `res` is then read unbound; every other
\* exception of the run, and of the status query, is not caught.
update_wal_status_raises_early(out, db) ==
    \/ out.kind \in {"exit", "nobinary", "badjson"}
    \/ out.kind = "ok" /\ Len(wal_archive_list(out)) > 0 /\ db.kind = "fail"

\* The exception leaves it at the last set: None has no timestamp().
update_wal_status_raises_late(out, db) ==
    /\ out.kind = "ok" /\ Len(wal_archive_list(out)) > 0
    /\ db.kind = "ok" /\ db.last_archived_time = NoTime

update_wal_status_raises(out, db) ==
    update_wal_status_raises_early(out, db) \/ update_wal_status_raises_late(out, db)

update_wal_status(out, db) ==
    IF update_wal_status_raises_early(out, db)
    THEN UNCHANGED walVars
    ELSE LET list == wal_archive_list(out)
         IN IF Len(list) > 0
            THEN /\ wal_integrity_status' =
                        IF out.report[1].status = "OK"
                        THEN [OK |-> 1, FAILURE |-> 0]
                        ELSE [OK |-> 0, FAILURE |-> 1]
                 /\ wal_archive_count' = CountSegments(list, 1, TRUE)
                 /\ wal_archive_missing_count' = CountSegments(list, 1, FALSE)
                 /\ last_upload_wal' = IF db.last_archived_time = NoTime
                                       THEN last_upload_wal
                                       ELSE db.last_archived_time
            ELSE /\ wal_archive_count' = 0
                 /\ UNCHANGED <<wal_integrity_status, wal_archive_missing_count,
                                last_upload_wal>>

\* xlog_ready_callback: the archive directory is listed ("ok"), is missing
\* ("notfound": FileNotFoundError) or cannot be read ("oserror": not caught).
\* `ready` files match READY_WAL_RE.  The callback returns res, which is
\* still 0 when os.listdir raised FileNotFoundError.
xlog_ready_callback(dir) ==
    /\ xlog_exception' = IF dir.kind = "ok" THEN FALSE
                         ELSE IF dir.kind = "notfound" THEN TRUE
                         ELSE xlog_exception
    /\ xlog_ready' = IF dir.kind = "ok" THEN dir.ready
                     ELSE IF dir.kind = "notfound" THEN 0
                     ELSE xlog_ready

\* The walg_exception gauge:
\*   lambda: (1 if self.basebackup_exception else 0 + 2 if self.xlog_exception else 0)
\* which Python reads as 1 if ... else ((0 + 2) if ... else 0).
exception_value ==
    IF basebackup_exception THEN 1
    ELSE IF xlog_exception THEN 0 + 2 ELSE 0

(***************************************************************************)
(* src/mysql/mysql_exporter.py                                             *)
(***************************************************************************)
\* _parse: None for no value and for a value that does not parse.
mysql_parse(value) == IF value = NoTime THEN NoTime ELSE value

\* a or b
Or(a, b) == IF a # NoTime THEN a ELSE b

parse_backup_dates(bb) ==
    [bb EXCEPT !.start_time = mysql_parse(Or(bb.start_time, bb.modify_time)),
               !.finish_time = mysql_parse(Or(bb.finish_time, bb.modify_time))]

\* st.isoformat().replace('+00:00', 'Z') if isinstance(st, datetime) else ''
IsoLabel(t) == IF t # NoTime THEN StrTime(t) \o "Z" ELSE ""

\* The label values update_basebackups registers a backup with.
mysql_labels(bb) ==
    <<bb.backup_name, ToString(bb.uncompressed_size), ToString(bb.compressed_size),
      IsoLabel(bb.start_time), IsoLabel(bb.finish_time)>>

\* The label values update_basebackups retracts a deleted backup with.
mysql_remove_labels(bb) ==
    <<bb.backup_name, ToString(bb.uncompressed_size), ToString(bb.compressed_size),
      "", "">>

\* new_bbs.sort(key=lambda x: x.get('start_time') or datetime.fromtimestamp(0))
mysql_sort(new_bbs) ==
    SortByKey(new_bbs, [i \in 1..Len(new_bbs) |-> IF new_bbs[i].start_time # NoTime
                                                  THEN new_bbs[i].start_time
                                                  ELSE Epoch])

\* The plain backup-list table: the lines of stdout, each a tuple of columns
\* (a blank line: no column); the first line that is not blank is the header.
\* A row of at least two columns is a backup: its name and its modification
\* time, NoTime when strptime rejects the text.
plain_record(parts) ==
    [backup_name |-> parts[1],
     start_time |-> parts[2],
     finish_time |-> parts[2],
     uncompressed_size |-> 0,
     compressed_size |-> 0]

\* Variant of plain_rows that takes only the rows of exactly two columns.
RECURSIVE plain_rows_of_two(_, _)
plain_rows_of_two(lines, i) ==
    IF i > Len(lines) THEN <<>>
    ELSE IF Len(lines[i]) # 2 THEN plain_rows_of_two(lines, i + 1)
    ELSE <<plain_record(lines[i])>> \o plain_rows_of_two(lines, i + 1)

RECURSIVE plain_rows(_, _)
plain_rows(lines, i) ==
    IF i > Len(lines) THEN <<>>
    ELSE IF Len(lines[i]) < 2 THEN plain_rows(lines, i + 1)
    ELSE <<plain_record(lines[i])>> \o plain_rows(lines, i + 1)

\* [l.strip() for l in stdout.splitlines() if l.strip()]
plain_lines(stdout) == SelectSeq(stdout, LAMBDA l : Len(l) > 0)

plain_list(lines) == IF Len(lines) > 1 THEN plain_rows(lines, 2) ELSE <<>>

\* What update_basebackups gets from the tool: the run of backup-list --json
\* (as ListingOutcome) and, after a non-zero exit, the run of the plain
\* backup-list: [kind, lines].
MysqlOutcome(json, fb_kind, fb_lines) ==
    [json |-> json, fb_kind |-> fb_kind, fb_lines |-> fb_lines]

\* Whether a snapshot is obtained.
mysql_listing_ok(out) ==
    \/ out.json.kind = "ok"
    \/ out.json.kind = "exit" /\ out.fb_kind = "ok"

mysql_new_bbs(out) ==
    IF out.json.kind = "ok"
    THEN [i \in 1..Len(out.json.stdout) |-> parse_backup_dates(out.json.stdout[i])]
    ELSE plain_list(plain_lines(out.fb_lines))

update_basebackups(out) ==
    IF ~mysql_listing_ok(out)
    THEN /\ basebackup_exception' = TRUE
         /\ bbs' = <<>>
         /\ UNCHANGED basebackup
         /\ listing_result' = "failed"
    ELSE LET new_bbs == mysql_new_bbs(out)
             existing_names == NamesOf(bbs)
             new_names == NamesOf(new_bbs)
             deleted == SelectNotIn(bbs, new_names)
             created == SelectNotIn(new_bbs, existing_names)
             removed == RemoveAll(basebackup,
                                  [i \in 1..Len(deleted) |-> mysql_remove_labels(deleted[i])], 1)
             added == LabelsAll(removed,
                                [i \in 1..Len(created) |-> mysql_labels(created[i])], 1)
         IN /\ basebackup' = added
            /\ bbs' = mysql_sort(new_bbs)
            /\ basebackup_exception' = FALSE
            /\ listing_result' = "ok"

\* A file name stem "." ext, the ext a sequence of characters:
\* mysql-bin.000012 is FileName("mysql-bin", <<"0", "0", "0", "0", "1", "2">>).
FileName(stem, ext) == [stem |-> stem, ext |-> ext]

DigitChars == <<"0", "1", "2", "3", "4", "5", "6", "7", "8", "9">>
Digits == {DigitChars[i] : i \in 1..Len(DigitChars)}

\* int(c) of a digit character
DigitValue(c) == (CHOOSE i \in 1..Len(DigitChars) : DigitChars[i] = c) - 1

\* name.startswith('mysql-bin.') or name.startswith('binlog.')
binlog_prefixed(name) == name.stem \in {"mysql-bin", "binlog"}

\* update_binlogs.  binlog-find gives [kind, tokens]: the words of its
\* output (stdout and stderr), each written as a file name.  SHOW MASTER
\* STATUS gives [kind, file].

\* The words that start with 'mysql-bin.' or 'binlog.'.
binlog_tokens(words) == SelectSeq(words, binlog_prefixed)

\* (\d+) after the prefix: the digits the ext begins with.
RECURSIVE LeadingDigits(_)
LeadingDigits(ext) ==
    IF ext = <<>> \/ Head(ext) \notin Digits THEN <<>>
    ELSE <<Head(ext)>> \o LeadingDigits(Tail(ext))

\* int(s) of a sequence of digit characters
RECURSIVE IntDec(_)
IntDec(s) ==
    IF s = <<>> THEN 0
    ELSE IntDec(SubSeq(s, 1, Len(s) - 1)) * 10 + DigitValue(s[Len(s)])

\* binlog_seq: int(m.group(1)) if m else -1
binlog_seq(filename) ==
    IF LeadingDigits(filename.ext) = <<>> THEN -1
    ELSE IntDec(LeadingDigits(filename.ext))

RECURSIVE MaxFirst(_, _, _)
MaxFirst(s, i, best) ==
    IF i > Len(s) THEN best
    ELSE MaxFirst(s, i + 1, IF binlog_seq(s[i]) > binlog_seq(best) THEN s[i] ELSE best)

\* Variant of latest_uploaded in which the last match wins.
last_match(binlogs) == IF Len(binlogs) = 0 THEN NoBinlog ELSE binlogs[Len(binlogs)]

\* max(binlogs, key=binlog_seq) if binlogs else None
latest_uploaded(binlogs) == IF Len(binlogs) = 0 THEN NoBinlog ELSE MaxFirst(binlogs, 2, binlogs[1])

\* The cleanup after binlog-find.  An entry of tmp_binlog_dir is
\* [name, size, nested]; a nested entry lies in a subdirectory.
DefaultMaxSize == 512

\* os.listdir(tmp_binlog_dir): the entries directly in it.
listdir(dir) == {e \in dir : ~e.nested}

\* re.compile(r'^(mysql-bin|binlog)\.\d+$').match(name)
pat_match(name) ==
    /\ name.stem \in {"mysql-bin", "binlog"}
    /\ Len(name.ext) > 0
    /\ \A i \in 1..Len(name.ext) : name.ext[i] \in Digits

\* The entries the cleanup calls os.remove on.
cleanup_removes(dir) ==
    IF cleanup_enabled
    THEN {e \in listdir(dir) : /\ binlog_prefixed(e.name)
                               /\ pat_match(e.name)
                               /\ ~(e.size > cleanup_max_size)}
    ELSE {}

\* os.remove succeeds, or raises and the entry stays (`kept`).
cleanup ==
    \E kept \in SUBSET cleanup_removes(tmp_files) :
        tmp_files' = tmp_files \ (cleanup_removes(tmp_files) \ kept)

update_binlogs(find, show) ==
    /\ IF find.kind # "ok"
       THEN UNCHANGED <<latest_uploaded_binlog, latest_uploaded_binlog_gauge, tmp_files>>
       ELSE LET latest == latest_uploaded(binlog_tokens(find.tokens))
            IN /\ latest_uploaded_binlog_gauge' =
                      IF latest # NoBinlog THEN Labels({}, <<latest>>) ELSE {}
               /\ latest_uploaded_binlog' =
                      IF latest # NoBinlog THEN latest ELSE latest_uploaded_binlog
               /\ cleanup
    /\ UNCHANGED <<cleanup_enabled, cleanup_max_size>>
    /\ IF show.kind # "ok"
       THEN UNCHANGED <<latest_active_binlog, latest_active_binlog_gauge>>
       ELSE /\ latest_active_binlog_gauge' =
                   IF show.file # NoBinlog THEN Labels({}, <<show.file>>) ELSE {}
            /\ latest_active_binlog' =
                   IF show.file # NoBinlog THEN show.file ELSE latest_active_binlog

(***************************************************************************)
(* The state after construction (Exporter.__init__, MySQLExporter.__init__)*)
(* with the main thread at the startup connection loop.                    *)
(***************************************************************************)
InitExporter ==
    /\ backend \in {"pg", "mysql"}
    /\ pc = "connect"
    /\ terminate = FALSE
    /\ bbs = <<>>
    /\ basebackup = {}
    /\ basebackup_exception = FALSE
    /\ xlog_exception = FALSE
    /\ listing_result = "none"
    /\ wal_integrity_status = [OK |-> NoSeries, FAILURE |-> NoSeries]
    /\ wal_archive_count = 0
    /\ wal_archive_missing_count = 0
    /\ last_upload_wal = NoSeries
    /\ latest_uploaded_binlog = NoBinlog
    /\ latest_uploaded_binlog_gauge = {}
    /\ latest_active_binlog = NoBinlog
    /\ latest_active_binlog_gauge = {}
    /\ cb_pc = "idle"
    /\ cb_list = <<>>
    /\ cb_a = 0
    /\ cb_result = 0
    /\ cb_raised = FALSE
    /\ cb_valid = {}
    /\ xlog_ready = 0
    /\ ub_stack = <<>>
    /\ now = 0
    /\ last_archive_check = NoCheck
    /\ archive_status = NoStatus
    /\ lookup = NoLookup
    /\ xlogs_since = Returned(0)
    /\ last_upload_xlog = Returned(0)
    /\ th_pc = [t \in Threads |-> "idle"]
    /\ th_ret = [t \in Threads |-> NoStatus]
    /\ th_at = [t \in Threads |-> NoCheck]
    /\ fetched = {}

\* tmp_binlog_dir is empty and the cleanup has its default settings.
InitTmp ==
    /\ tmp_files = {}
    /\ cleanup_enabled = TRUE
    /\ cleanup_max_size = DefaultMaxSize

\* No call of wal_diff is under way.
Init ==
    /\ InitExporter
    /\ InitTmp
    /\ wd_a = WalFileName(1, 0, 0)
    /\ wd_b = WalFileName(1, 0, 0)
    /\ wd_result = <<>>

(***************************************************************************)
(* The main thread of src/exporter.py.                                     *)
(***************************************************************************)
\* Variant of pg_connect_retry without the except clause: the failed
\* connection ends the process.
pg_connect_gives_up ==
    /\ backend = "pg" /\ pc = "connect"
    /\ pc' = "crashed"
    /\ UNCHANGED <<backend, terminate, exporterVars, xlog_exception, listing_result,
                   walVars, binlogVars, cbVars, sideVars>>

\* The startup loop: the connection fails, sleep 60 s and retry.
pg_connect_retry ==
    /\ backend = "pg" /\ pc = "connect"
    /\ UNCHANGED vars

pg_connect ==
    /\ backend = "pg" /\ pc = "connect"
    /\ pc' = "listing"
    /\ UNCHANGED <<backend, terminate, exporterVars, xlog_exception, listing_result,
                   walVars, binlogVars, cbVars, sideVars>>

\* exporter.update_basebackup() of the loop; an exception ends the process.
pg_loop_update_basebackup(out) ==
    /\ backend = "pg" /\ pc = "listing"
    /\ update_basebackup(out)
    /\ pc' = IF update_basebackup_raises(out) THEN "crashed" ELSE "status"
    /\ UNCHANGED <<backend, terminate, xlog_exception, walVars, binlogVars, cbVars, sideVars>>

\* exporter.update_wal_status() of the loop; an exception ends the process.
pg_loop_update_wal_status(out, db) ==
    /\ backend = "pg" /\ pc = "status"
    /\ update_wal_status(out, db)
    /\ pc' = IF update_wal_status_raises(out, db) THEN "crashed" ELSE "sleep"
    /\ lookup' = IF update_wal_status_queries(out)
                 THEN _last_archive_status("update_wal_status", db)
                 ELSE lookup
    /\ UNCHANGED <<backend, terminate, exporterVars, xlog_exception, listing_result,
                   binlogVars, cbVars, xlog_ready, reloadVars, now, last_archive_check,
                   archive_status, xlogs_since, last_upload_xlog, diffVars, threadVars>>

\* time.sleep(walg_exporter_scrape_interval) returns.
pg_sleep ==
    /\ backend = "pg" /\ pc = "sleep"
    /\ pc' = "listing"
    /\ UNCHANGED <<backend, terminate, exporterVars, xlog_exception, listing_result,
                   walVars, binlogVars, cbVars, sideVars>>

\* SIGHUP: the handler update_basebackup runs in the main thread, between
\* two calls of the loop or during the sleep; its exception ends the process.
pg_sighup(out) ==
    /\ backend = "pg" /\ pc \in {"listing", "status", "sleep"}
    /\ update_basebackup(out)
    /\ pc' = IF update_basebackup_raises(out) THEN "crashed" ELSE pc
    /\ UNCHANGED <<backend, terminate, xlog_exception, walVars, binlogVars, cbVars, sideVars>>

\* The serving thread evaluates walg_missing_remote_wal_segment_at_end.
pg_scrape_xlog_ready(dir) ==
    /\ backend = "pg" /\ pc \in {"listing", "status", "sleep"}
    /\ xlog_ready_callback(dir)
    /\ UNCHANGED <<backend, pc, terminate, exporterVars, listing_result, walVars,
                   binlogVars, cbVars, reloadVars, cacheVars, diffVars, threadVars>>

(***************************************************************************)
(* main() of src/mysql/mysql_exporter.py.                                  *)
(***************************************************************************)
\* signal_handler: SIGTERM sets the global.
signal_handler ==
    /\ backend = "mysql" /\ pc # "exited" /\ ~terminate
    /\ terminate' = TRUE
    /\ UNCHANGED <<backend, pc, exporterVars, xlog_exception, listing_result, walVars,
                   binlogVars, cbVars, sideVars>>

mysql_connect_retry ==
    /\ backend = "mysql" /\ pc = "connect"
    /\ UNCHANGED vars

mysql_connect ==
    /\ backend = "mysql" /\ pc = "connect"
    /\ pc' = "top"
    /\ UNCHANGED <<backend, terminate, exporterVars, xlog_exception, listing_result,
                   walVars, binlogVars, cbVars, sideVars>>

\* while True: if terminate: break
mysql_loop_top ==
    /\ backend = "mysql" /\ pc = "top"
    /\ pc' = IF terminate THEN "exited" ELSE "listing"
    /\ UNCHANGED <<backend, terminate, exporterVars, xlog_exception, listing_result,
                   walVars, binlogVars, cbVars, sideVars>>

mysql_loop_update_basebackups(out) ==
    /\ backend = "mysql" /\ pc = "listing"
    /\ update_basebackups(out)
    /\ pc' = "binlogs"
    /\ UNCHANGED <<backend, terminate, xlog_exception, walVars, binlogVars, cbVars, sideVars>>

mysql_loop_update_binlogs(find, show) ==
    /\ backend = "mysql" /\ pc = "binlogs"
    /\ update_binlogs(find, show)
    /\ pc' = "sleep"
    /\ UNCHANGED <<backend, terminate, exporterVars, xlog_exception, listing_result,
                   walVars, cbVars, sideVars>>

mysql_sleep ==
    /\ backend = "mysql" /\ pc = "sleep"
    /\ pc' = "top"
    /\ UNCHANGED <<backend, terminate, exporterVars, xlog_exception, listing_result,
                   walVars, binlogVars, cbVars, sideVars>>

(***************************************************************************)
(* The environment's outcomes.                                             *)
(***************************************************************************)
ListingFailures == {ListingOutcome(k, <<>>) : k \in ListingKinds \ {"ok"}}
ListingOutcomes ==
    ListingFailures \cup
    {ListingOutcome("ok", s) : s \in Snapshots(CompleteRecords \cup BareRecords)}

PlainHeader == <<"name", "modified">>
PlainTables ==
    {<<>>, <<PlainHeader>>}
    \cup {<<PlainHeader, <<n, NoTime>>>> : n \in 1..MaxBare}
    \cup {<<PlainHeader, <<n>>>> : n \in 1..MaxBare}

MysqlOutcomes ==
    {MysqlOutcome(j, "none", <<>>) : j \in {o \in ListingOutcomes : o.kind # "exit"}}
    \cup {MysqlOutcome(ListingOutcome("exit", <<>>), "ok", l) : l \in PlainTables}
    \cup {MysqlOutcome(ListingOutcome("exit", <<>>), k, <<>>) : k \in {"exit", "nobinary"}}

\* Under Spec the backup listing is the varied input; wal-verify, the
\* database, the archive directory and the binlogs each give one outcome of
\* every kind.
WalOutcomes ==
    {WalOutcome(k, <<>>) : k \in {"ok", "exit", "nobinary", "badjson"}}
    \cup {WalOutcome("ok", <<WalReport("OK", <<WalEntry("FOUND", 1, 1)>>)>>),
          WalOutcome("ok", <<WalReport("FAILURE", <<WalEntry("MISSING", 1, 1)>>)>>)}

DbOutcomes ==
    {DbOutcome("fail", NoTime, WalFileName(1, 0, 1)),
     DbOutcome("ok", NoTime, WalFileName(1, 0, 1)),
     DbOutcome("ok", 1, WalFileName(1, 0, 1))}

DirOutcome(kind, ready) == [kind |-> kind, ready |-> ready]
DirOutcomes ==
    {DirOutcome("ok", 0), DirOutcome("ok", 1),
     DirOutcome("notfound", 0), DirOutcome("oserror", 0)}

FindOutcomes ==
    {[kind |-> "exit", tokens |-> <<>>],
     [kind |-> "nobinary", tokens |-> <<>>],
     [kind |-> "ok", tokens |-> <<>>],
     [kind |-> "ok", tokens |-> <<FileName("mysql-bin", <<"0", "1">>)>>]}
ShowOutcomes ==
    {[kind |-> "fail", file |-> NoBinlog],
     [kind |-> "ok", file |-> NoBinlog],
     [kind |-> "ok", file |-> FileName("mysql-bin", <<"0", "1">>)]}

Next ==
    \/ pg_connect_retry
    \/ pg_connect
    \/ \E out \in ListingOutcomes : pg_loop_update_basebackup(out)
    \/ \E out \in WalOutcomes, db \in DbOutcomes : pg_loop_update_wal_status(out, db)
    \/ pg_sleep
    \/ \E out \in ListingOutcomes : pg_sighup(out)
    \/ \E dir \in DirOutcomes : pg_scrape_xlog_ready(dir)
    \/ signal_handler
    \/ mysql_connect_retry
    \/ mysql_connect
    \/ mysql_loop_top
    \/ \E out \in MysqlOutcomes : mysql_loop_update_basebackups(out)
    \/ \E find \in FindOutcomes, show \in ShowOutcomes : mysql_loop_update_binlogs(find, show)
    \/ mysql_sleep

Spec == Init /\ [][Next]_vars

(***************************************************************************)
(* The gauge callbacks that read the inventory, as functions of the list   *)
(* they find in self.bbs.                                                  *)
(***************************************************************************)
\* walg_basebackup_count: lambda: len(self.bbs)
basebackup_count(b) == Len(b)

\* walg_last_upload{type="basebackup"}
pg_last_upload_basebackup(b) == IF b # <<>> THEN b[Len(b)].start_time ELSE 0

\* walg_oldest_basebackup
pg_oldest_basebackup(b) == IF b # <<>> THEN b[1].start_time ELSE 0

\* The duration of the first backup instead of the last.
pg_duration_of_first(b) ==
    IF b # <<>> THEN b[1].finish_time - b[1].start_time ELSE 0

\* walg_last_backup_duration
pg_last_backup_duration(b) ==
    IF b # <<>> THEN b[Len(b)].finish_time - b[Len(b)].start_time ELSE 0

\* MySQLExporter._oldest_bb_callback
mysql_oldest_bb_callback(b) ==
    IF b = <<>> THEN 0
    ELSE IF b[1].start_time # NoTime THEN b[1].start_time ELSE 0

\* MySQLExporter._last_backup_duration_callback
mysql_last_backup_duration_callback(b) ==
    IF b = <<>> THEN 0
    ELSE LET last == b[Len(b)]
         IN IF last.start_time # NoTime /\ last.finish_time # NoTime
            THEN last.finish_time - last.start_time
            ELSE 0

(***************************************************************************)
(* Steps, for the properties below.                                        *)
(***************************************************************************)
\* A backup-list poll is made and fails (no snapshot is obtained).
ListingFailsStep ==
    \/ \E out \in ListingOutcomes :
          /\ out.kind # "ok"
          /\ pg_loop_update_basebackup(out) \/ pg_sighup(out)
    \/ \E out \in MysqlOutcomes :
          /\ ~mysql_listing_ok(out)
          /\ mysql_loop_update_basebackups(out)

\* A backup-list poll is made and obtains the snapshot `s`.
PgListingGives(s) ==
    LET out == ListingOutcome("ok", s)
    IN /\ out \in ListingOutcomes
       /\ ~update_basebackup_raises(out)
       /\ pg_loop_update_basebackup(out) \/ pg_sighup(out)

MysqlListingGives(out) ==
    /\ mysql_listing_ok(out)
    /\ mysql_loop_update_basebackups(out)

\* The pg_stat_archiver query is made, and fails.
StatusQueryStep(kinds) ==
    \E out \in WalOutcomes, db \in DbOutcomes :
        /\ out.kind = "ok" /\ Len(wal_archive_list(out)) > 0
        /\ db.kind \in kinds
        /\ pg_loop_update_wal_status(out, db)

\* The backup a series of walg_basebackup is about.
SeriesName(labelvalues) ==
    IF backend = "pg" THEN labelvalues[1][24] ELSE labelvalues[1]
SeriesNames(gauge) == {SeriesName(l) : l \in gauge}
SeriesOf(gauge, n) == {l \in gauge : SeriesName(l) = n}

(***************************************************************************)
(* C1. A failed backup-list poll leaves the inventory and the published    *)
(* per-backup series as they were and leaves the listing flag true.        *)
(***************************************************************************)
C1_FailedPollChangesNothing ==
    [][ListingFailsStep =>
           /\ bbs' = bbs
           /\ basebackup' = basebackup
           /\ basebackup_exception' = TRUE]_vars

(***************************************************************************)
(* C2. No error inside a poll cycle ends the process: the main thread is   *)
(* never left by an exception.                                             *)
(***************************************************************************)
C2_NeverCrashes == pc # "crashed"

(***************************************************************************)
(* C3. The walg_exception gauge reads 1 for a failed listing plus 2 for    *)
(* the second flag: 0, 1, 2 or 3.                                          *)
(***************************************************************************)
C3_ExceptionGauge ==
    backend = "pg" =>
        exception_value = (IF basebackup_exception THEN 1 ELSE 0)
                          + (IF xlog_exception THEN 2 ELSE 0)

(***************************************************************************)
(* C4. The listing flag is true exactly when the most recent backup-list   *)
(* attempt failed, whatever the kind of failure.                           *)
(***************************************************************************)
C4_FlagIffLastListingFailed ==
    listing_result # "none" => (basebackup_exception <=> listing_result = "failed")

(***************************************************************************)
(* C5. The second flag (xlog_exception) is set by a failed status query,   *)
(* cleared by a successful one, and changed by no other operation.         *)
(***************************************************************************)
C5_StatusFlag ==
    [][/\ StatusQueryStep({"fail"}) => xlog_exception' = TRUE
       /\ StatusQueryStep({"ok"}) => xlog_exception' = FALSE
       /\ ~StatusQueryStep({"ok", "fail"}) => xlog_exception' = xlog_exception]_vars

\* A backup-list poll is made and obtains a snapshot of the names N.
ListingGivesNames(N) ==
    \/ \E out \in ListingOutcomes :
          /\ out.kind = "ok" /\ NamesOf(out.stdout) = N
          /\ PgListingGives(out.stdout)
    \/ \E out \in MysqlOutcomes :
          /\ mysql_listing_ok(out) /\ NamesOf(mysql_new_bbs(out)) = N
          /\ MysqlListingGives(out)

(***************************************************************************)
(* C6. Reconciling the inventory {A, B} against the snapshot {B, C}        *)
(* retracts A's series, leaves B's series alone, registers one series for  *)
(* C and leaves the inventory holding B and C.                             *)
(***************************************************************************)
C6_ReconcileRetractsAndRegisters ==
    [][\A a, b, c \in Names :
          (/\ a # b /\ b # c /\ a # c
           /\ NamesOf(bbs) = {a, b}
           /\ ListingGivesNames({b, c}))
          => /\ SeriesOf(basebackup', a) = {}
             /\ SeriesOf(basebackup', b) = SeriesOf(basebackup, b)
             /\ Cardinality(SeriesOf(basebackup', c)) = 1
             /\ NamesOf(bbs') = {b, c}]_vars

(***************************************************************************)
(* C7. A deleted backup's series is retracted with the label values it was *)
(* registered with: when the series were those of the inventory, they are  *)
(* those of the snapshot after a successful poll (no stale series).        *)
(***************************************************************************)
C7_NoStaleSeries ==
    [][\A N \in SUBSET Names :
          (/\ SeriesNames(basebackup) = NamesOf(bbs)
           /\ ListingGivesNames(N))
          => SeriesNames(basebackup') = N]_vars

(***************************************************************************)
(* C8. A successful poll that lists no backup empties the inventory, so    *)
(* the count, last-backup and oldest-backup gauges read 0, and leaves the  *)
(* listing flag false.                                                     *)
(***************************************************************************)
C8_EmptySnapshotEmptiesInventory ==
    [][ListingGivesNames({}) =>
           /\ bbs' = <<>>
           /\ basebackup_count(bbs') = 0
           /\ backend = "pg" => /\ pg_last_upload_basebackup(bbs') = 0
                                /\ pg_oldest_basebackup(bbs') = 0
           /\ backend = "mysql" => mysql_oldest_bb_callback(bbs') = 0
           /\ basebackup_exception' = FALSE]_vars

(***************************************************************************)
(* C9. The inventory is sorted ascending by start_time, ties broken by     *)
(* backup name.                                                            *)
(***************************************************************************)
\* The start time a record is ordered by (a record without one: the epoch).
StartKey(bb) == IF bb.start_time = NoTime THEN Epoch ELSE bb.start_time

Serving == pc \notin {"connect", "crashed", "exited"}

mainVars == <<backend, pc, terminate, bbs, basebackup, basebackup_exception,
              xlog_exception, listing_result, walVars, binlogVars>>

\* list[i] for a Python index i: a negative one counts from the end.
PyIndexOk(list, i) == -Len(list) <= i /\ i < Len(list)
PyIndex(list, i) == IF i < 0 THEN list[Len(list) + i + 1] ELSE list[i + 1]

\* if self.bbs
pg_duration_test ==
    /\ backend = "pg" /\ Serving /\ cb_pc = "idle"
    /\ cb_valid' = {pg_last_backup_duration(bbs)}
    /\ IF bbs # <<>>
       THEN cb_pc' = "load1" /\ UNCHANGED cb_result
       ELSE cb_pc' = "done" /\ cb_result' = 0
    /\ UNCHANGED <<mainVars, sideVars, cb_list, cb_a, cb_raised>>

\* self.bbs, the list to index (first operand)
pg_duration_load1 ==
    /\ backend = "pg" /\ Serving /\ cb_pc = "load1"
    /\ cb_list' = bbs
    /\ cb_valid' = cb_valid \cup {pg_last_backup_duration(bbs)}
    /\ cb_pc' = "len1"
    /\ UNCHANGED <<mainVars, sideVars, cb_a, cb_result, cb_raised>>

\* [len(self.bbs) - 1]['finish_time']
pg_duration_len1 ==
    /\ backend = "pg" /\ Serving /\ cb_pc = "len1"
    /\ cb_valid' = cb_valid \cup {pg_last_backup_duration(bbs)}
    /\ IF PyIndexOk(cb_list, Len(bbs) - 1)
       THEN /\ cb_a' = PyIndex(cb_list, Len(bbs) - 1).finish_time
            /\ cb_pc' = "load2"
            /\ UNCHANGED cb_raised
       ELSE /\ cb_raised' = TRUE
            /\ cb_pc' = "done"
            /\ UNCHANGED cb_a
    /\ cb_list' = <<>>
    /\ UNCHANGED <<mainVars, sideVars, cb_result>>

\* self.bbs, the list to index (second operand)
pg_duration_load2 ==
    /\ backend = "pg" /\ Serving /\ cb_pc = "load2"
    /\ cb_list' = bbs
    /\ cb_valid' = cb_valid \cup {pg_last_backup_duration(bbs)}
    /\ cb_pc' = "len2"
    /\ UNCHANGED <<mainVars, sideVars, cb_a, cb_result, cb_raised>>

\* [len(self.bbs) - 1]['start_time'], the subtraction and total_seconds()
pg_duration_len2 ==
    /\ backend = "pg" /\ Serving /\ cb_pc = "len2"
    /\ cb_valid' = cb_valid \cup {pg_last_backup_duration(bbs)}
    /\ IF PyIndexOk(cb_list, Len(bbs) - 1)
       THEN /\ cb_result' = cb_a - PyIndex(cb_list, Len(bbs) - 1).start_time
            /\ UNCHANGED cb_raised
       ELSE /\ cb_raised' = TRUE
            /\ UNCHANGED cb_result
    /\ cb_pc' = "done"
    /\ cb_list' = <<>>
    /\ cb_a' = 0
    /\ UNCHANGED <<mainVars, sideVars>>

\* MySQLExporter._last_backup_duration_callback: if not self.bbs: return 0
mysql_duration_test ==
    /\ backend = "mysql" /\ Serving /\ cb_pc = "idle"
    /\ cb_valid' = {mysql_last_backup_duration_callback(bbs)}
    /\ IF bbs = <<>>
       THEN cb_pc' = "done" /\ cb_result' = 0
       ELSE cb_pc' = "last" /\ UNCHANGED cb_result
    /\ UNCHANGED <<mainVars, sideVars, cb_list, cb_a, cb_raised>>

\* last = self.bbs[-1] and the rest, which reads `last` only
mysql_duration_last ==
    /\ backend = "mysql" /\ Serving /\ cb_pc = "last"
    /\ cb_valid' = cb_valid \cup {mysql_last_backup_duration_callback(bbs)}
    /\ IF PyIndexOk(bbs, -1)
       THEN /\ cb_result' = mysql_last_backup_duration_callback(<<PyIndex(bbs, -1)>>)
            /\ UNCHANGED cb_raised
       ELSE /\ cb_raised' = TRUE
            /\ UNCHANGED cb_result
    /\ cb_pc' = "done"
    /\ UNCHANGED <<mainVars, sideVars, cb_list, cb_a>>

\* The value is served (or the scrape fails); the next scrape starts afresh.
scrape_return ==
    /\ cb_pc = "done"
    /\ cb_pc' = "idle"
    /\ cb_result' = 0
    /\ cb_raised' = FALSE
    /\ cb_valid' = {}
    /\ UNCHANGED <<mainVars, sideVars, cb_list, cb_a>>

NextScrape ==
    \/ Next
    \/ pg_duration_test
    \/ pg_duration_load1
    \/ pg_duration_len1
    \/ pg_duration_load2
    \/ pg_duration_len2
    \/ mysql_duration_test
    \/ mysql_duration_last
    \/ scrape_return

SpecScrape == Init /\ [][NextScrape]_vars

(***************************************************************************)
(* C10. A gauge callback that runs while the main thread polls computes    *)
(* its value from one inventory: it raises no IndexError, and what it      *)
(* returns is its value on an inventory that self.bbs held while it ran.   *)
(***************************************************************************)
C10_CallbackReadsOneInventory ==
    cb_pc = "done" => ~cb_raised /\ cb_result \in cb_valid

(***************************************************************************)
(* update_basebackup in two steps.  Between subprocess.run returning the   *)
(* backup list and the reconcile that follows, the main thread runs        *)
(* Python code, and a SIGHUP that arrives there runs the handler           *)
(*     signal.signal(signal.SIGHUP, exporter.update_basebackup)            *)
(* in the main thread at once: a second execution of update_basebackup     *)
(* begins and ends inside the first.  ub_stack holds the executions that   *)
(* have their output and have not reconciled it, the innermost last.       *)
(***************************************************************************)
MaxNest == 2        \* executions of update_basebackup inside one another

\* An execution holding `out`; overtaken: one that began later has assigned
\* self.bbs.
Frame(by, out, overtaken) == [by |-> by, out |-> out, overtaken |-> overtaken]

Overtake(stack) == [i \in 1..Len(stack) |-> Frame(stack[i].by, stack[i].out, TRUE)]

\* subprocess.run of an execution begun by `by`: a failure is handled (or
\* leaves the function) at once, an output is kept for the reconcile.
backup_list_returns(by, out) ==
    IF out.kind = "ok"
    THEN /\ ub_stack' = Append(ub_stack, Frame(by, out, FALSE))
         /\ pc' = IF by = "loop" THEN "reconcile" ELSE pc
         /\ UNCHANGED <<exporterVars, listing_result>>
    ELSE /\ update_basebackup(out)
         /\ ub_stack' = IF update_basebackup_raises(out) THEN <<>> ELSE ub_stack
         /\ pc' = IF update_basebackup_raises(out) THEN "crashed"
                  ELSE IF by = "loop" THEN "status" ELSE pc

\* The loop calls exporter.update_basebackup().
pg_loop_backup_list(out) ==
    /\ backend = "pg" /\ pc = "listing" /\ ub_stack = <<>>
    /\ backup_list_returns("loop", out)
    /\ UNCHANGED <<backend, terminate, xlog_exception, walVars, binlogVars, cbVars,
                   xlog_ready, cacheVars, diffVars, threadVars>>

\* SIGHUP: the handler begins wherever the main thread is.
pg_sighup_backup_list(out) ==
    /\ backend = "pg" /\ pc \in {"listing", "reconcile", "status", "sleep"}
    /\ Len(ub_stack) < MaxNest
    /\ backup_list_returns("sighup", out)
    /\ UNCHANGED <<backend, terminate, xlog_exception, walVars, binlogVars, cbVars,
                   xlog_ready, cacheVars, diffVars, threadVars>>

\* The innermost execution reconciles its output and returns.
pg_reconcile ==
    /\ backend = "pg" /\ ub_stack # <<>>
    /\ LET top == ub_stack[Len(ub_stack)]
           rest == SubSeq(ub_stack, 1, Len(ub_stack) - 1)
       IN /\ update_basebackup(top.out)
          /\ ub_stack' = IF update_basebackup_raises(top.out) THEN <<>>
                          ELSE IF Len(top.out.stdout) > 0 THEN Overtake(rest)
                          ELSE rest
          /\ pc' = IF update_basebackup_raises(top.out) THEN "crashed"
                   ELSE IF top.by = "loop" THEN "status" ELSE pc
    /\ UNCHANGED <<backend, terminate, xlog_exception, walVars, binlogVars, cbVars,
                   xlog_ready, cacheVars, diffVars, threadVars>>

\* The rest of the loop runs when no handler is running.
pg_reload_update_wal_status(out, db) ==
    /\ ub_stack = <<>>
    /\ pg_loop_update_wal_status(out, db)

pg_reload_sleep ==
    /\ ub_stack = <<>>
    /\ pg_sleep

InitPg == Init /\ backend = "pg"

NextReload ==
    \/ pg_connect_retry
    \/ pg_connect
    \/ \E out \in ListingOutcomes : pg_loop_backup_list(out)
    \/ \E out \in ListingOutcomes : pg_sighup_backup_list(out)
    \/ pg_reconcile
    \/ \E out \in WalOutcomes, db \in DbOutcomes : pg_reload_update_wal_status(out, db)
    \/ pg_reload_sleep

SpecReload == InitPg /\ [][NextReload]_vars

(***************************************************************************)
(* C11. Poll cycles do not overlap: no execution of the backup-list        *)
(* reconcile begins while another is in progress, so no reconcile writes   *)
(* the inventory after one that began later has written it.                *)
(***************************************************************************)
C11_CyclesSequential ==
    [][/\ Len(ub_stack') <= 1
       /\ \A i \in 1..Len(ub_stack) :
             (pg_reconcile /\ i = Len(ub_stack) /\ ub_stack[i].overtaken) => bbs' = bbs]_vars

(***************************************************************************)
(* wal_diff and the status cache.                                          *)
(***************************************************************************)
NoWal == <<>>       \* last_archived_wal is NULL (None): nothing archived yet

\* int(s, 16)
RECURSIVE IntHex(_)
IntHex(s) ==
    IF s = <<>> THEN 0
    ELSE IntHex(SubSeq(s, 1, Len(s) - 1)) * 16 + s[Len(s)]

\* None[0:8] raises TypeError.
wal_diff_raises(a, b) == a = NoWal \/ b = NoWal

\* wal_diff with the log field weighed 0x10 instead of 0x100.
wal_diff_short_log(a, b) ==
    LET timeline_a == SubSeq(a, 1, 8)
        timeline_b == SubSeq(b, 1, 8)
    IN IF timeline_a # timeline_b THEN -1
       ELSE LET a_int == IntHex(SubSeq(a, 9, 16)) * 16 + IntHex(SubSeq(a, 17, 24))
                b_int == IntHex(SubSeq(b, 9, 16)) * 16 + IntHex(SubSeq(b, 17, 24))
            IN a_int - b_int

wal_diff(a, b) ==
    LET timeline_a == SubSeq(a, 1, 8)
        timeline_b == SubSeq(b, 1, 8)
    IN IF timeline_a # timeline_b THEN -1
       ELSE LET a_int == IntHex(SubSeq(a, 9, 16)) * 256 + IntHex(SubSeq(a, 17, 24))
                b_int == IntHex(SubSeq(b, 9, 16)) * 256 + IntHex(SubSeq(b, 17, 24))
            IN a_int - b_int

MaxClock == 3       \* the clock runs from 0 to MaxClock seconds

\* self.last_archive_check after the lookup: the assignment of line 280 is
\* not reached when the query of line 279 raises.
check_after_memoized(db, t) == t

check_after(db, t) == IF db.kind = "fail" THEN last_archive_check ELSE t

\* last_archive_status, called by the callback `by`; the query, when one is
\* made, answers `db` after d seconds.
last_archive_status(by, db, d) ==
    IF needs_query
    THEN /\ lookup' = _last_archive_status(by, db)
         /\ archive_status' = IF db.kind = "fail" THEN archive_status ELSE db
         /\ now' = now + d
         /\ last_archive_check' = check_after(db, now + d)
    ELSE /\ lookup' = Cached(by, archive_status)
         /\ UNCHANGED <<archive_status, now, last_archive_check>>

\* Variant of xlog_upload_value that gives the epoch for a null time.
xlog_upload_zeroed(status) == Returned(status.last_archived_time)

\* What last_xlog_upload_callback makes of the status it was given: it
\* raises when last_archived_time is None.
xlog_upload_value(status) ==
    IF status.last_archived_time = NoTime THEN Raised
    ELSE Returned(status.last_archived_time)

\* last_xlog_upload_callback (walg_last_upload{type="xlog"})
last_xlog_upload_callback(db, d) ==
    /\ last_archive_status("last_xlog_upload_callback", db, d)
    /\ last_upload_xlog' = IF lookup'.raised THEN Raised
                           ELSE xlog_upload_value(lookup'.value)

pg_scrape_last_xlog_upload(db, d) ==
    /\ backend = "pg" /\ Serving
    /\ now + d <= MaxClock
    /\ last_xlog_upload_callback(db, d)
    /\ UNCHANGED <<mainVars, cbVars, xlog_ready, reloadVars, xlogs_since, diffVars, threadVars>>

\* xlog_since_last_bb_callback (walg_xlogs_since_basebackup)
xlog_since_last_bb_callback(db, d) ==
    IF bbs # <<>>
    THEN /\ last_archive_status("xlog_since_last_bb_callback", db, d)
         /\ xlogs_since' =
               LET a == lookup'.value.last_archived_wal
                   b == bbs[Len(bbs)].wal_file_name
               IN IF lookup'.raised \/ wal_diff_raises(a, b) THEN Raised
                  ELSE Returned(wal_diff(a, b))
    ELSE /\ xlogs_since' = Returned(0)
         /\ UNCHANGED <<now, last_archive_check, archive_status, lookup>>

pg_scrape_xlogs_since(db, d) ==
    /\ backend = "pg" /\ Serving
    /\ now + d <= MaxClock
    /\ xlog_since_last_bb_callback(db, d)
    /\ UNCHANGED <<mainVars, cbVars, xlog_ready, reloadVars, last_upload_xlog, diffVars, threadVars>>

\* A second passes.
tick ==
    /\ now < MaxClock
    /\ now' = now + 1
    /\ UNCHANGED <<mainVars, cbVars, xlog_ready, reloadVars, last_archive_check,
                   archive_status, lookup, xlogs_since, last_upload_xlog, diffVars, threadVars>>

\* pg_stat_archiver: unreachable, nothing archived yet, or the last archived
\* WAL file on the backups' timeline or on the next one.
StatusOutcomes ==
    {DbOutcome("fail", NoTime, NoWal),
     DbOutcome("ok", NoTime, NoWal),
     DbOutcome("ok", 1, WalFileName(1, 0, 3)),
     DbOutcome("ok", 1, WalFileName(2, 0, 3))}

QueryTimes == {0, 1}

\* Under SpecCache the clock and the database are the varied inputs; the
\* backup list shows no backup, one backup, or fails.
CacheListings ==
    {ListingOutcome("exit", <<>>), ListingOutcome("ok", <<>>)}
    \cup {ListingOutcome("ok", <<r>>) : r \in CompleteRecords}

NextCache ==
    \/ pg_connect_retry
    \/ pg_connect
    \/ \E out \in CacheListings : pg_loop_update_basebackup(out)
    \/ \E out \in WalOutcomes, db \in StatusOutcomes : pg_loop_update_wal_status(out, db)
    \/ pg_sleep
    \/ \E db \in StatusOutcomes, d \in QueryTimes : pg_scrape_last_xlog_upload(db, d)
    \/ \E db \in StatusOutcomes, d \in QueryTimes : pg_scrape_xlogs_since(db, d)
    \/ tick

SpecCache == InitPg /\ [][NextCache]_vars

\* A status lookup is made and the database would answer `db`: through the
\* cache by a callback, or by update_wal_status itself.
CachedLookupStep(db) ==
    \E d \in QueryTimes :
        \/ pg_scrape_last_xlog_upload(db, d)
        \/ bbs # <<>> /\ pg_scrape_xlogs_since(db, d)

DirectLookupStep(db) ==
    \E out \in WalOutcomes :
        /\ update_wal_status_queries(out)
        /\ pg_loop_update_wal_status(out, db)

LookupStep(db) == CachedLookupStep(db) \/ DirectLookupStep(db)

(***************************************************************************)
(* C12. A status lookup made within the TTL window of a successful query   *)
(* issues no query and returns the cached object; a lookup made after the  *)
(* window issues a query.                                                  *)
(***************************************************************************)
C12_OneQueryPerWindow ==
    [][\A db \in StatusOutcomes :
          LookupStep(db) =>
              IF needs_query
              THEN lookup'.queried
              ELSE ~lookup'.queried /\ lookup'.value = archive_status]_vars

(***************************************************************************)
(* C13. A status lookup outside the TTL window whose query fails raises,   *)
(* does not return the cached value and leaves the cache and its timestamp *)
(* as they were, so that the next lookup queries again.                    *)
(***************************************************************************)
C13_FailedQueryNotMemoized ==
    [][\A db \in StatusOutcomes :
          /\ (needs_query /\ db.kind = "fail" /\ LookupStep(db))
                => /\ lookup'.raised
                   /\ lookup'.value = NoStatus
                   /\ last_archive_check' = last_archive_check
                   /\ archive_status' = archive_status
          /\ (lookup.raised /\ lookup.outside /\ LookupStep(db))
                => lookup'.queried]_vars

\* A callback's lookup found the cached answer too old, asked the database
\* and failed.
C13_Witness ==
    /\ lookup.raised /\ lookup.outside
    /\ lookup.by # "update_wal_status"
    /\ archive_status # NoStatus
    /\ now - last_archive_check > TTL

\* A backup-list poll is made and the tool prints the batch `out`.
BatchStep(out) ==
    \/ pg_loop_update_basebackup(out)
    \/ pg_sighup(out)
    \/ mysql_loop_update_basebackups(MysqlOutcome(out, "none", <<>>))

\* A record whose timestamps are missing.
Malformed(r) == r.start_time = NoTime /\ r.finish_time = NoTime

(***************************************************************************)
(* C14. A malformed record in an otherwise valid batch does not abort the  *)
(* poll: every well-formed record of the batch is in the inventory         *)
(* afterwards and has its series.                                          *)
(***************************************************************************)
C14_MalformedRecordDoesNotAbort ==
    [][\A out \in ListingOutcomes :
          (/\ out.kind = "ok"
           /\ \E i \in 1..Len(out.stdout) : Malformed(out.stdout[i])
           /\ BatchStep(out))
          => /\ pc' # "crashed"
             /\ \A i \in 1..Len(out.stdout) :
                   ~Malformed(out.stdout[i])
                   => /\ out.stdout[i].backup_name \in NamesOf(bbs')
                      /\ SeriesOf(basebackup', out.stdout[i].backup_name) # {}]_vars

\* An operation other than the backup listing fails: the integrity check,
\* the status query, the listing of the archive_status directory, the binlog
\* discovery or the query of the active binlog.
IntegrityCheckFailsStep ==
    \E out \in WalOutcomes, db \in DbOutcomes :
        /\ out.kind # "ok"
        /\ pg_loop_update_wal_status(out, db)

StatusQueryFailsStep ==
    \E out \in WalOutcomes, db \in DbOutcomes :
        /\ update_wal_status_queries(out) /\ db.kind = "fail"
        /\ pg_loop_update_wal_status(out, db)

DirectoryFailsStep ==
    \E dir \in DirOutcomes :
        /\ dir.kind # "ok"
        /\ pg_scrape_xlog_ready(dir)

BinlogFindFailsStep ==
    \E find \in FindOutcomes, show \in ShowOutcomes :
        /\ find.kind # "ok"
        /\ mysql_loop_update_binlogs(find, show)

ShowFailsStep ==
    \E find \in FindOutcomes, show \in ShowOutcomes :
        /\ show.kind # "ok"
        /\ mysql_loop_update_binlogs(find, show)

(***************************************************************************)
(* C15. The failure of an operation other than the backup listing leaves   *)
(* the gauges it publishes as a prior cycle left them: none is set to zero *)
(* and no series is removed.                                               *)
(***************************************************************************)
C15_FailureLeavesGauges ==
    [][/\ (IntegrityCheckFailsStep \/ StatusQueryFailsStep)
            => /\ walVars' = walVars
               /\ basebackup' = basebackup
       /\ DirectoryFailsStep => xlog_ready' = xlog_ready
       /\ BinlogFindFailsStep
            => latest_uploaded_binlog_gauge' = latest_uploaded_binlog_gauge
       /\ ShowFailsStep
            => latest_active_binlog_gauge' = latest_active_binlog_gauge]_vars

(***************************************************************************)
(* wal_diff on its own: two WAL file names are drawn and wal_diff is       *)
(* applied to them.  A well-formed name has a segment field of 00..FF (the *)
(* names PostgreSQL gives 16 MB segments, 0x100 to a log), which is the    *)
(* width wal_diff weighs the log field with.                               *)
(***************************************************************************)
MaxTimeline == 2    \* timelines 1..MaxTimeline
MaxLog == 1         \* log fields 0..MaxLog
SegmentsPerLog == 256
Segments == {0, 1, SegmentsPerLog - 2, SegmentsPerLog - 1}

Positions ==
    {WalFileName(tl, log, seg) : tl \in 1..MaxTimeline, log \in 0..MaxLog, seg \in Segments}

InitWalDiff ==
    /\ InitExporter /\ backend = "pg"
    /\ InitTmp
    /\ wd_a \in Positions
    /\ wd_b \in Positions
    /\ wd_result = <<>>

wal_diff_call ==
    /\ wd_result = <<>>
    /\ wd_result' = <<wal_diff(wd_a, wd_b)>>
    /\ UNCHANGED <<mainVars, cbVars, xlog_ready, reloadVars, cacheVars, wd_a, wd_b,
                   threadVars>>

NextWalDiff == wal_diff_call

SpecWalDiff == InitWalDiff /\ [][NextWalDiff]_vars

\* The fields of a name, and the name that follows it on its timeline.
TimelineOf(p) == IntHex(SubSeq(p, 1, 8))
LogOf(p) == IntHex(SubSeq(p, 9, 16))
SegmentOf(p) == IntHex(SubSeq(p, 17, 24))

NextPosition(p) ==
    IF SegmentOf(p) = SegmentsPerLog - 1
    THEN WalFileName(TimelineOf(p), LogOf(p) + 1, 0)
    ELSE WalFileName(TimelineOf(p), LogOf(p), SegmentOf(p) + 1)

\* The value wal_diff gives for two names on different timelines.
Incomparable == -1

(***************************************************************************)
(* C16. On different timelines wal_diff returns the incomparable sentinel, *)
(* and on one timeline it never returns that value.                        *)
(***************************************************************************)
C16_SentinelDistinct ==
    wd_result # <<>> =>
        IF TimelineOf(wd_a) # TimelineOf(wd_b)
        THEN wd_result[1] = Incomparable
        ELSE wd_result[1] # Incomparable

finish_position(bb) == WalFileName(TimelineOf(bb.wal_file_name), 0, bb.finish_lsn)

(***************************************************************************)
(* C18. walg_xlogs_since_basebackup is the difference between the last     *)
(* archived position of the status and the finish position of the last     *)
(* backup of the inventory; on the empty inventory it is 0 and no status   *)
(* lookup is made.                                                         *)
(***************************************************************************)
C18_PositionsSinceLastBackup ==
    [][\A db \in StatusOutcomes, d \in QueryTimes :
          pg_scrape_xlogs_since(db, d) =>
              IF bbs = <<>>
              THEN /\ xlogs_since' = Returned(0)
                   /\ lookup' = lookup
                   /\ last_archive_check' = last_archive_check
              ELSE (~lookup'.raised /\ lookup'.value.last_archived_wal # NoWal)
                   => xlogs_since' =
                         Returned(wal_diff(lookup'.value.last_archived_wal,
                                           finish_position(bbs[Len(bbs)])))]_vars

\* What the last_backup_duration and oldest_basebackup gauges give on the
\* inventory as it stands.
last_backup_duration ==
    IF backend = "pg" THEN pg_last_backup_duration(bbs)
    ELSE mysql_last_backup_duration_callback(bbs)

oldest_basebackup ==
    IF backend = "pg" THEN pg_oldest_basebackup(bbs)
    ELSE mysql_oldest_bb_callback(bbs)

(***************************************************************************)
(* C19. last_backup_duration is finish_time - start_time of the last       *)
(* backup of the inventory, 0 when one of the two is null; the oldest      *)
(* backup timestamp is the start_time of the first; both are 0 on the      *)
(* empty inventory.                                                        *)
(***************************************************************************)
C19_DurationAndOldest ==
    IF bbs = <<>>
    THEN last_backup_duration = 0 /\ oldest_basebackup = 0
    ELSE LET last == bbs[Len(bbs)]
             first == bbs[1]
         IN /\ last_backup_duration =
                  IF last.start_time = NoTime \/ last.finish_time = NoTime THEN 0
                  ELSE last.finish_time - last.start_time
            /\ oldest_basebackup =
                  IF first.start_time = NoTime THEN 0 ELSE first.start_time

\* An inventory of two backups of different durations.
C19_Witness ==
    /\ Len(bbs) = 2
    /\ bbs[1].start_time # NoTime /\ bbs[2].start_time # NoTime
    /\ bbs[1].finish_time - bbs[1].start_time # bbs[2].finish_time - bbs[2].start_time

\* The integrity check gives an empty result, or cannot be run.
IntegrityEmptyStep ==
    \E out \in WalOutcomes, db \in DbOutcomes :
        /\ out.kind # "ok" \/ out.report = <<>>
        /\ pg_loop_update_wal_status(out, db)

\* A status series that reads 0 or was never created.
Neutral(v) == v = 0 \/ v = NoSeries

(***************************************************************************)
(* C20. When the integrity check gives an empty result or is unavailable,  *)
(* the missing count is 0 and the integrity status is neutral (neither OK  *)
(* nor FAILURE reads 1), whatever an earlier cycle published.              *)
(***************************************************************************)
C20_EmptyCheckIsNeutral ==
    [][IntegrityEmptyStep =>
           /\ wal_archive_missing_count' = 0
           /\ Neutral(wal_integrity_status'.OK)
           /\ Neutral(wal_integrity_status'.FAILURE)]_vars

(***************************************************************************)
(* update_wal_status on reports of several entries: wal-verify prints      *)
(* nothing, a report without entries, or a report of up to four entries    *)
(* whose statuses are FOUND, MISSING_DELAYED and MISSING_LOST; the report  *)
(* status is OK, WARNING or FAILURE.                                       *)
(***************************************************************************)
IntegrityOutcomes ==
    WalOutcomes
    \cup {WalOutcome("ok", <<WalReport("OK", <<>>)>>),
          WalOutcome("ok", <<WalReport("OK", <<WalEntry("FOUND", 2, 2),
                                                WalEntry("FOUND", 1, 1)>>)>>),
          WalOutcome("ok", <<WalReport("WARNING", <<WalEntry("FOUND", 2, 1),
                                                     WalEntry("MISSING_DELAYED", 1, 1)>>)>>),
          WalOutcome("ok", <<WalReport("FAILURE", <<WalEntry("FOUND", 2, 2),
                                                     WalEntry("MISSING_DELAYED", 1, 2),
                                                     WalEntry("FOUND", 1, 1),
                                                     WalEntry("MISSING_LOST", 2, 1)>>)>>)}

NextIntegrity ==
    \/ pg_connect_retry
    \/ pg_connect
    \/ \E out \in CacheListings : pg_loop_update_basebackup(out)
    \/ \E out \in IntegrityOutcomes, db \in DbOutcomes : pg_loop_update_wal_status(out, db)
    \/ pg_sleep

SpecIntegrity == InitPg /\ [][NextIntegrity]_vars

\* The sum of the counts of the entries whose status is (found) or is not
\* (~found) FOUND.
RECURSIVE SumOfCounts(_, _)
SumOfCounts(details, found) ==
    IF details = <<>> THEN 0
    ELSE LET e == details[1]
         IN (IF (e.status = "FOUND") <=> found THEN e.segments_count ELSE 0)
            + SumOfCounts(Tail(details), found)

\* update_wal_status is given a report that has entries and reaches the
\* gauges (the status query it makes on the way answers).
IntegrityReportStep(out) ==
    \E db \in DbOutcomes :
        /\ out.kind = "ok" /\ out.report # <<>> /\ out.report[1].details # <<>>
        /\ db.kind = "ok"
        /\ pg_loop_update_wal_status(out, db)

UploadListings == {out \in CacheListings : out.stdout = <<>>}

NextUpload ==
    \/ pg_connect_retry
    \/ pg_connect
    \/ \E out \in UploadListings : pg_loop_update_basebackup(out)
    \/ \E out \in WalOutcomes, db \in StatusOutcomes : pg_loop_update_wal_status(out, db)
    \/ pg_sleep
    \/ \E db \in StatusOutcomes, d \in QueryTimes : pg_scrape_last_xlog_upload(db, d)
    \/ tick

SpecUpload == InitPg /\ [][NextUpload]_vars

\* The xlog last-upload callback runs and the database would answer `db`.
LastUploadStep(db) == \E d \in QueryTimes : pg_scrape_last_xlog_upload(db, d)

\* update_wal_status reaches the set of walg_last_upload{type="wal"} with the
\* status `db`.
WalUploadStep(db) ==
    \E out \in WalOutcomes :
        /\ update_wal_status_queries(out) /\ db.kind = "ok"
        /\ pg_loop_update_wal_status(out, db)

(***************************************************************************)
(* C22. The xlog last-upload callback returns last_archived_time of the    *)
(* status it is given when that is set, and raises (it does not return 0)  *)
(* when it is null; update_wal_status publishes no last-upload value from  *)
(* a null last_archived_time either.                                       *)
(***************************************************************************)
C22_NullUploadTimeRaises ==
    [][\A db \in StatusOutcomes :
          /\ (LastUploadStep(db) /\ ~lookup'.raised)
                => IF lookup'.value.last_archived_time # NoTime
                   THEN last_upload_xlog' = Returned(lookup'.value.last_archived_time)
                   ELSE last_upload_xlog' = Raised
          /\ (WalUploadStep(db) /\ db.last_archived_time = NoTime)
                => last_upload_wal' = last_upload_wal]_vars

\* The callback was given a status whose last_archived_time is null.
C22_Witness ==
    /\ lookup.by = "last_xlog_upload_callback"
    /\ ~lookup.raised
    /\ lookup.value.kind = "ok"
    /\ lookup.value.last_archived_time = NoTime
    /\ last_upload_xlog = Raised

\* Where the main thread is when the startup loop is left: at the first
\* statement of the poll loop.
LoopStart == IF backend = "pg" THEN "listing" ELSE "top"

\* What the poll cycles write.
pollVars == <<exporterVars, listing_result, walVars, binlogVars>>

(***************************************************************************)
(* C23. At startup the initial database connection is retried without end: *)
(* a failed attempt leaves the main thread in the startup loop, no poll    *)
(* (backup listing, integrity check, binlog discovery) is made before the  *)
(* first successful connection, and the successful connection takes the    *)
(* main thread to the start of the poll loop.                              *)
(***************************************************************************)
C23_NoPollBeforeConnection ==
    [][pc = "connect" =>
           /\ pc' \in {"connect", LoopStart}
           /\ pollVars' = pollVars
           /\ listing_result = "none"]_vars

\* The startup loop was left and no poll has been made yet.
C23_Witness ==
    /\ pc = LoopStart
    /\ listing_result = "none"

(***************************************************************************)
(* update_basebackups on the plain table.  The tool prints a header and    *)
(* one row per backup: name, modified, wal_segment_backup_start.  The      *)
(* tables below also hold rows whose time does not parse, rows of one      *)
(* column and a blank first line.                                          *)
(***************************************************************************)
PlainRows ==
    {<<n, StartOf(n), n>> : n \in Names}
    \cup {<<n, NoTime>> : n \in 1..MaxBare}
    \cup {<<n>> : n \in 1..MaxBare}

PlainBodies ==
    {s \in SeqsUpTo(PlainRows, MaxLen) : Cardinality({s[i][1] : i \in 1..Len(s)}) = Len(s)}

FallbackTables ==
    {<<>>}
    \cup {<<PlainHeader>> \o s : s \in PlainBodies}
    \cup {<<<<>>, PlainHeader>> \o s : s \in PlainBodies}

\* The JSON listing exits non-zero and the plain listing prints a table or
\* fails; or the JSON listing prints nothing.
FallbackOutcomes ==
    {MysqlOutcome(ListingOutcome("exit", <<>>), "ok", l) : l \in FallbackTables}
    \cup {MysqlOutcome(ListingOutcome("exit", <<>>), k, <<>>) : k \in {"exit", "nobinary"}}
    \cup {MysqlOutcome(ListingOutcome("ok", <<>>), "none", <<>>)}

NextFallback ==
    \/ mysql_connect_retry
    \/ mysql_connect
    \/ mysql_loop_top
    \/ \E out \in FallbackOutcomes : mysql_loop_update_basebackups(out)
    \/ \E find \in FindOutcomes, show \in ShowOutcomes : mysql_loop_update_binlogs(find, show)
    \/ mysql_sleep

InitMysql == Init /\ backend = "mysql"

SpecFallback == InitMysql /\ [][NextFallback]_vars

\* The rows of a table that stand for a backup: those after the header (the
\* first line that is not blank) that have at least two columns.
BackupRows(table) ==
    LET first == CHOOSE i \in 1..(Len(table) + 1) :
                     /\ i = Len(table) + 1 \/ table[i] # <<>>
                     /\ \A j \in 1..(i - 1) : table[j] = <<>>
    IN {i \in (first + 1)..Len(table) : Len(table[i]) >= 2}

\* The record the claim gives a row.
RowRecord(row) ==
    [backup_name |-> row[1], start_time |-> row[2], finish_time |-> row[2],
     uncompressed_size |-> 0, compressed_size |-> 0]

\* The JSON listing exits non-zero and the plain listing is run.
FallbackStep(out) ==
    /\ out.json.kind = "exit"
    /\ mysql_loop_update_basebackups(out)

(***************************************************************************)
(* C24. When the JSON listing exits non-zero and the plain listing         *)
(* succeeds, the snapshot is built from the plain table: the header is     *)
(* skipped, each later row of at least two columns gives one record (name  *)
(* the first column, start and finish time the second, sizes 0), shorter   *)
(* rows are skipped; the snapshot is reconciled (sorted into the           *)
(* inventory, a series registered for each new name) and the failure flag  *)
(* is cleared.  The flag is set only when the plain listing fails too.     *)
(***************************************************************************)
C24_PlainTableFallback ==
    [][\A out \in FallbackOutcomes :
          FallbackStep(out) =>
              IF out.fb_kind = "ok"
              THEN LET rows == BackupRows(out.fb_lines)
                   IN /\ Len(bbs') = Cardinality(rows)
                      /\ \A i \in rows :
                            \E j \in 1..Len(bbs') : bbs'[j] = RowRecord(out.fb_lines[i])
                      /\ \A i, j \in 1..Len(bbs') :
                            i < j => StartKey(bbs'[i]) <= StartKey(bbs'[j])
                      /\ \A i \in rows :
                            out.fb_lines[i][1] \notin NamesOf(bbs)
                            => \E l \in basebackup' :
                                  /\ l[1] = out.fb_lines[i][1]
                                  /\ l[2] = "0" /\ l[3] = "0"
                                  /\ l[4] = IsoLabel(out.fb_lines[i][2])
                                  /\ l[5] = IsoLabel(out.fb_lines[i][2])
                      /\ ~basebackup_exception'
              ELSE basebackup_exception']_vars

\* An inventory built from a plain table: a row whose time did not parse
\* and a row of three columns.
C24_Witness ==
    /\ backend = "mysql"
    /\ listing_result = "ok"
    /\ ~basebackup_exception
    /\ Len(bbs) = 2
    /\ bbs[1] = RowRecord(<<1, NoTime>>)
    /\ bbs[2] = RowRecord(<<3, StartOf(3)>>)

(***************************************************************************)
(* The cleanup of tmp_binlog_dir on its own.  At startup the directory     *)
(* holds any of: two binlog stubs, the binlog index, a file of another     *)
(* name, and a stub in a subdirectory; a file is empty, small or large.    *)
(* The cleanup is enabled or not, and its size threshold is 0 or the       *)
(* default.                                                                *)
(***************************************************************************)
Entry(name, size, nested) == [name |-> name, size |-> size, nested |-> nested]

SmallSize == 100
LargeSize == 1000
FileSizes == {0, SmallSize, LargeSize}

TopNames ==
    {FileName("mysql-bin", <<"0", "1">>),
     FileName("binlog", <<"2">>),
     FileName("mysql-bin", <<"i", "n", "d", "e", "x">>),
     FileName("notes", <<"1">>)}
NestedStub == Entry(FileName("mysql-bin", <<"0", "3">>), 0, TRUE)

\* A directory has one entry of a name at most.
Directories ==
    {d \in SUBSET ({Entry(n, s, FALSE) : n \in TopNames, s \in FileSizes} \cup {NestedStub}) :
        \A e, f \in d : e.name = f.name => e = f}

InitCleanup ==
    /\ InitExporter /\ backend = "mysql"
    /\ wd_a = WalFileName(1, 0, 0)
    /\ wd_b = WalFileName(1, 0, 0)
    /\ wd_result = <<>>
    /\ tmp_files \in Directories
    /\ cleanup_enabled \in BOOLEAN
    /\ cleanup_max_size \in {0, DefaultMaxSize}

CleanupListings == {MysqlOutcome(ListingOutcome("ok", <<>>), "none", <<>>)}
CleanupShows == {show \in ShowOutcomes : show.kind # "ok"}

NextCleanup ==
    \/ mysql_connect_retry
    \/ mysql_connect
    \/ mysql_loop_top
    \/ \E out \in CleanupListings : mysql_loop_update_basebackups(out)
    \/ \E find \in FindOutcomes, show \in CleanupShows : mysql_loop_update_binlogs(find, show)
    \/ mysql_sleep

SpecCleanup == InitCleanup /\ [][NextCleanup]_vars

\* The name matches ^(mysql-bin|binlog)\.\d+$ .
MarkerName(name) ==
    /\ name.stem = "mysql-bin" \/ name.stem = "binlog"
    /\ name.ext # <<>>
    /\ \A i \in 1..Len(name.ext) : name.ext[i] \in Digits

\* update_binlogs runs and binlog-find fails.
FindFailsStep ==
    \E find \in FindOutcomes, show \in ShowOutcomes :
        /\ find.kind # "ok"
        /\ mysql_loop_update_binlogs(find, show)

(***************************************************************************)
(* C25. The cleanup after binlog-find deletes only files directly in       *)
(* tmp_binlog_dir whose name matches ^(mysql-bin|binlog)\.\d+$ and that    *)
(* are empty: a file of size greater than 0 is never removed, and nothing  *)
(* is removed when the cleanup is disabled or binlog-find failed.          *)
(***************************************************************************)
C25_CleanupRemovesOnlyEmptyMarkers ==
    [][/\ \A e \in tmp_files \ tmp_files' :
             /\ ~e.nested
             /\ MarkerName(e.name)
             /\ e.size = 0
       /\ ~cleanup_enabled => tmp_files' = tmp_files
       /\ FindFailsStep => tmp_files' = tmp_files]_vars

(***************************************************************************)
(* update_binlogs on outputs of several words: binlog names whose numbers  *)
(* order otherwise than their texts (9 and 10), two names of one number,   *)
(* the binlog index, and a word that is no binlog name.                    *)
(***************************************************************************)
MaxWords == 2       \* words in one binlog-find output

BinlogWords ==
    {FileName("mysql-bin", <<"9">>),
     FileName("mysql-bin", <<"1", "0">>),
     FileName("binlog", <<"0", "1", "0">>),
     FileName("mysql-bin", <<"i", "n", "d", "e", "x">>),
     FileName("INFO", <<>>)}

BinlogFinds ==
    {[kind |-> k, tokens |-> <<>>] : k \in {"exit", "nobinary"}}
    \cup {[kind |-> "ok", tokens |-> w] : w \in SeqsUpTo(BinlogWords, MaxWords)}

BinlogShows ==
    {[kind |-> "fail", file |-> NoBinlog], [kind |-> "ok", file |-> NoBinlog]}
    \cup {[kind |-> "ok", file |-> f] : f \in {w \in BinlogWords : pat_match(w)}}

NextBinlogs ==
    \/ mysql_connect_retry
    \/ mysql_connect
    \/ mysql_loop_top
    \/ \E out \in CleanupListings : mysql_loop_update_basebackups(out)
    \/ \E find \in BinlogFinds, show \in BinlogShows : mysql_loop_update_binlogs(find, show)
    \/ mysql_sleep

SpecBinlogs == InitMysql /\ [][NextBinlogs]_vars

\* A binlog token and its sequence number: the decimal number after the dot.
IsBinlogToken(w) == w.stem = "mysql-bin" \/ w.stem = "binlog"
HasNumber(w) == w.ext # <<>> /\ \A i \in 1..Len(w.ext) : w.ext[i] \in Digits

RECURSIVE Decimal(_)
Decimal(s) ==
    IF s = <<>> THEN 0
    ELSE DigitValue(Head(s)) * (10 ^ (Len(s) - 1)) + Decimal(Tail(s))

SequenceNumber(w) == Decimal(w.ext)

NextTerm ==
    \/ signal_handler
    \/ mysql_connect_retry
    \/ mysql_connect
    \/ mysql_loop_top
    \/ \E out \in FallbackOutcomes : mysql_loop_update_basebackups(out)
    \/ \E find \in FindOutcomes, show \in ShowOutcomes : mysql_loop_update_binlogs(find, show)
    \/ mysql_sleep

MainThreadRuns ==
    /\ WF_vars(mysql_loop_top)
    /\ WF_vars(\E out \in FallbackOutcomes : mysql_loop_update_basebackups(out))
    /\ WF_vars(\E find \in FindOutcomes, show \in ShowOutcomes :
                  mysql_loop_update_binlogs(find, show))
    /\ WF_vars(mysql_sleep)

SpecTerm == InitMysql /\ [][NextTerm]_vars /\ MainThreadRuns

(***************************************************************************)
(* C27. Once SIGTERM has been delivered the process leaves its loops and   *)
(* main returns, from every state (the startup connection loop included),  *)
(* and no poll cycle is started after the first check at the top of the    *)
(* loop that follows the signal.                                           *)
(***************************************************************************)
C27_SigtermExits ==
    /\ terminate ~> pc = "exited"
    /\ [][(terminate /\ pc = "top") => pc' # "listing"]_vars

(***************************************************************************)
(* last_archive_status, statement by statement.  The metrics server gives  *)
(* every scrape a thread of its own, and a thread that runs a status       *)
(* callback executes                                                       *)
(*     if (self.last_archive_check is None or now - ... > 1):   test       *)
(*         self.archive_status = self._last_archive_status()    query      *)
(*         self.last_archive_check = now                        stamp      *)
(*     return self.archive_status                               return     *)
(* with no lock: another thread may run between any two of these.          *)
(***************************************************************************)
ThreadAt(t, where) == [th_pc EXCEPT ![t] = where]

\* The test; when it holds the thread calls _last_archive_status.
las_test(t) ==
    /\ backend = "pg" /\ Serving /\ th_pc[t] = "idle"
    /\ th_pc' = ThreadAt(t, IF needs_query THEN "query" ELSE "return")
    /\ th_at' = IF needs_query THEN [th_at EXCEPT ![t] = now] ELSE th_at
    /\ UNCHANGED <<mainVars, cbVars, xlog_ready, reloadVars, cacheVars, diffVars,
                   th_ret, fetched>>

\* The query answers `db`: the row is assigned, or the exception leaves the
\* callback.
las_query(t, db) ==
    /\ th_pc[t] = "query"
    /\ IF db.kind = "fail"
       THEN /\ th_pc' = ThreadAt(t, "raised")
            /\ UNCHANGED <<archive_status, fetched>>
       ELSE /\ th_pc' = ThreadAt(t, "stamp")
            /\ archive_status' = db
            /\ fetched' = fetched \cup {db}
    /\ UNCHANGED <<mainVars, cbVars, xlog_ready, reloadVars, now, last_archive_check,
                   lookup, xlogs_since, last_upload_xlog, diffVars, th_ret, th_at>>

\* self.last_archive_check = datetime.datetime.now().timestamp()
las_stamp(t) ==
    /\ th_pc[t] = "stamp"
    /\ last_archive_check' = now
    /\ th_pc' = ThreadAt(t, "return")
    /\ UNCHANGED <<mainVars, cbVars, xlog_ready, reloadVars, now, archive_status,
                   lookup, xlogs_since, last_upload_xlog, diffVars, th_ret, th_at, fetched>>

\* return self.archive_status
las_return(t) ==
    /\ th_pc[t] = "return"
    /\ th_ret' = [th_ret EXCEPT ![t] = archive_status]
    /\ th_pc' = ThreadAt(t, "done")
    /\ UNCHANGED <<mainVars, cbVars, xlog_ready, reloadVars, cacheVars, diffVars, th_at, fetched>>

\* The scrape ends; the thread serves the next one.
las_done(t) ==
    /\ th_pc[t] \in {"done", "raised"}
    /\ th_pc' = ThreadAt(t, "idle")
    /\ th_ret' = [th_ret EXCEPT ![t] = NoStatus]
    /\ th_at' = [th_at EXCEPT ![t] = NoCheck]
    /\ UNCHANGED <<mainVars, cbVars, xlog_ready, reloadVars, cacheVars, diffVars, fetched>>

\* The serving threads beside a main thread that has connected; the main loop
\* reads and writes none of the memoized fields.
NextThreads ==
    \/ pg_connect_retry
    \/ pg_connect
    \/ \E t \in Threads : las_test(t)
    \/ \E t \in Threads, db \in StatusOutcomes : las_query(t, db)
    \/ \E t \in Threads : las_stamp(t)
    \/ \E t \in Threads : las_return(t)
    \/ \E t \in Threads : las_done(t)
    \/ tick

SpecThreads == InitPg /\ [][NextThreads]_vars

\* The threads whose query is issued and not yet memoized.
Querying == {t \in Threads : th_pc[t] \in {"query", "stamp"}}

\* Two threads whose queries were issued at the same second of the clock, so
\* in the same TTL window whatever the window's origin.
SameWindow(t1, t2) == t1 # t2 /\ {t1, t2} \subseteq Querying /\ th_at[t1] = th_at[t2]

(***************************************************************************)
(* C28. However the callers of last_archive_status interleave, one query   *)
(* at most is issued per TTL window (no two callers have a query under way *)
(* that both issued at the same second), and every caller returns a row    *)
(* that a completed successful query fetched, never None.                  *)
(***************************************************************************)
C28_ConcurrentCallersOneQuery ==
    /\ \A t1, t2 \in Threads : ~SameWindow(t1, t2)
    /\ \A t \in Threads :
          th_pc[t] = "done" => th_ret[t] # NoStatus /\ th_ret[t] \in fetched

====
